---- MODULE Spec2Model ----
(***************************************************************************)
(* TradeSphere: the transform step (etl/transform_trades.py), the          *)
(* analytics step (notebook/analytics.py) and the dashboard                *)
(* (app/dashboard.py), modelled as state machines over small tables.       *)
(*                                                                         *)
(* A table is a sequence of rows; a row is a record of cells; a cell is a  *)
(* record [k, v, d, s]: k the kind of value, v/d an exact rational v/d     *)
(* (floats are modelled by exact rationals), s a string.                   *)
(*   kinds of a CSV text cell : "empty" "word" "numtxt" "iso" "us"         *)
(*   kinds of a DataFrame cell: "nan" "str" "num" "date" (and "iso"/"us"   *)
(*                              for a string that still holds date text)   *)
(*   "absent": the column does not exist in the table                      *)
(* A date is the number yyyymmdd; "iso" text holds yyyymmdd (2024-01-05),  *)
(* "us" text holds mmddyyyy (01/05/2024).                                  *)
(***************************************************************************)
EXTENDS Integers, Sequences, FiniteSets, TLC

VARIABLES
    strict,      \* to_datetime infers one format for the column (pandas >= 2)
    rawFile,     \* data/trades.csv: [cols, rows]
    processed,   \* data/processed_trades.csv: [exists, cols, rows]
    summaryFile, \* data/summary_metrics.csv: [exists, rows]
    df,          \* DataFrame returned by the latest successful load_and_clean
    status,      \* outcome of the latest transform run: "idle" "ok" "failed"
    lastPath,    \* --input of the latest transform run: "none" "raw" "processed"
    runs,        \* number of transform runs so far
    series,      \* the pnl_series argument of historical_var
    alpha,       \* its alpha, in percent
    lookback,    \* its lookback
    varWindow,   \* the observations s the quantile was taken over
    varResult,   \* its return value
    aPc,         \* analytics step: "off" "call" "returned" "main" "written"
    pnlFile,     \* data/pnl_daily.csv
    varFile,     \* data/var_metrics.csv
    cpExpoFile,  \* data/exposure_by_counterparty.csv
    acExpoFile,  \* data/exposure_by_asset.csv
    biFile,      \* data/bi_export.csv
    dateRange,   \* dashboard sidebar: the date range <<d1, d2>>
    selCp,       \* dashboard sidebar: the selected counterparties
    selAc,       \* dashboard sidebar: the selected asset classes
    page,        \* what the latest run of the dashboard script put on the page
    dPc,         \* dashboard: "off" "start" "rendered" "raised"
    dSeries,     \* the series argument of last_period_delta
    dDays,       \* its days
    dCurr,       \* the entries summed into curr
    dPrev,       \* the entries summed into prev
    dResult,     \* its return value
    deltaPc      \* last_period_delta: "off" "call" "returned"

etlVars == <<strict, rawFile, processed, summaryFile, df, status, lastPath, runs>>
varVars == <<series, alpha, lookback, varWindow, varResult, aPc>>
outVars == <<pnlFile, varFile, cpExpoFile, acExpoFile, biFile>>

dashVars == <<dateRange, selCp, selAc, page, dPc>>
deltaVars == <<dSeries, dDays, dCurr, dPrev, dResult, deltaPc>>

vars == <<etlVars, varVars, outVars, dashVars, deltaVars>>

(***************************************************************************)
(* Bounds of the model.                                                    *)
(***************************************************************************)
MaxRows == 2
MaxRuns == 2
MaxSeries == 6
NumDates == 5
DashRows == 2
MaxDelta == 6

(***************************************************************************)
(* Cells and exact rational arithmetic.                                    *)
(***************************************************************************)
Cell(k, v, d, s) == [k |-> k, v |-> v, d |-> d, s |-> s]
Absent     == Cell("absent", 0, 1, "")
Empty      == Cell("empty", 0, 1, "")
Word(s)    == Cell("word", 0, 1, s)
NumTxt(n)  == Cell("numtxt", n, 1, "")
IsoTxt(n)  == Cell("iso", n, 1, "")
UsTxt(n)   == Cell("us", n, 1, "")
NaN        == Cell("nan", 0, 1, "")
Str(s)     == Cell("str", 0, 1, s)
Date(n)    == Cell("date", n, 1, "")

Abs(x) == IF x < 0 THEN -x ELSE x

RECURSIVE GCD(_, _)
GCD(a, b) == IF b = 0 THEN a ELSE GCD(b, a % b)

\* the number n/d in lowest terms, d > 0
Rat(n, d) ==
    LET g == GCD(Abs(n), d)
    IN  IF n = 0 THEN Cell("num", 0, 1, "") ELSE Cell("num", n \div g, d \div g, "")

Num(n) == Rat(n, 1)
RatAdd(a, b) == Rat(a.v * b.d + b.v * a.d, a.d * b.d)
RatLess(a, b) == a.v * b.d < b.v * a.d

REQUIRED == <<"trade_id", "counterparty", "asset_class", "currency",
              "trade_type", "trade_date", "notional", "pnl">>
DERIVED  == <<"notional_mn", "year", "month">>

Range(f) == {f[i] : i \in DOMAIN f}
RequiredSet == Range(REQUIRED)
AllCols == RequiredSet \cup Range(DERIVED)


(***************************************************************************)
(* etl/transform_trades.py                                                 *)
(***************************************************************************)
Million == 1000000

\* pd.read_csv on one cell: an empty field is NaN, a number is parsed,
\* anything else stays a string (date text is still a string here)
ReadCsvCell(c) ==
    CASE c.k = "empty"  -> NaN
      [] c.k = "word"   -> Str(c.s)
      [] c.k = "numtxt" -> Rat(c.v, c.d)
      [] OTHER          -> c

ReadCsv(rows) == [i \in DOMAIN rows |-> [c \in DOMAIN rows[i] |-> ReadCsvCell(rows[i][c])]]

\* DataFrame.to_csv on one cell: NaN is written empty, a date as ISO text
ToCsvCell(c) ==
    CASE c.k = "nan"  -> Empty
      [] c.k = "str"  -> Word(c.s)
      [] c.k = "num"  -> Cell("numtxt", c.v, c.d, "")
      [] c.k = "date" -> IsoTxt(c.v)
      [] OTHER        -> c

ToCsv(rows) == [i \in DOMAIN rows |-> [c \in DOMAIN rows[i] |-> ToCsvCell(rows[i][c])]]

\* the check with the last required column forgotten (REQUIRED[:-1])
MissingColsButLast(cols) ==
    SelectSeq(SubSeq(REQUIRED, 1, Len(REQUIRED) - 1), LAMBDA c : c \notin cols)

\* missing = [c for c in REQUIRED if c not in df.columns]
MissingCols(cols) == SelectSeq(REQUIRED, LAMBDA c : c \notin cols)

\* the date a text cell denotes, as yyyymmdd
ParseIso(n) == n
ParseUs(n)  == (n % 10000) * 10000 + (n \div 1000000) * 100 + ((n \div 10000) % 100)

\* kind of the first non-null cell of the trade_date column ("none" if all null):
\* the element pandas >= 2 guesses the column's format from
FirstDateKind(rows) ==
    LET nonNull == {i \in DOMAIN rows : rows[i].trade_date.k # "nan"}
    IN  IF nonNull = {} THEN "none"
        ELSE rows[CHOOSE i \in nonNull : \A j \in nonNull : i <= j].trade_date.k

\* pd.to_datetime(..., errors="coerce") on one cell. With format inference
\* (st) a cell in another format than the guessed one (fmt) becomes NaT; when
\* no format can be guessed every cell is parsed on its own.
ToDatetime(c, fmt, st) ==
    CASE c.k = "iso"  -> IF st /\ fmt = "us"  THEN NaN ELSE Date(ParseIso(c.v))
      [] c.k = "us"   -> IF st /\ fmt = "iso" THEN NaN ELSE Date(ParseUs(c.v))
      [] c.k = "date" -> c
      [] OTHER        -> NaN

\* pd.to_numeric(..., errors="coerce") on one cell
ToNumeric(c) == IF c.k = "num" THEN c ELSE NaN

CoerceRow(r, fmt, st) ==
    [r EXCEPT !.trade_date = ToDatetime(r.trade_date, fmt, st),
              !.notional   = ToNumeric(r.notional),
              !.pnl        = ToNumeric(r.pnl)]

\* dropna(how="all"): a row goes only when every required cell is null
DropNaAll(rows) == SelectSeq(rows, LAMBDA r : \E c \in RequiredSet : r[c].k # "nan")

\* df.dropna(subset=REQUIRED)
DropNa(rows) == SelectSeq(rows, LAMBDA r : \A c \in RequiredSet : r[c].k # "nan")

\* the scaling written back to notional itself
DeriveRowInPlace(r) ==
    [r EXCEPT !.notional    = Rat(r.notional.v, r.notional.d * Million),
              !.notional_mn = Rat(r.notional.v, r.notional.d * Million),
              !.year        = Num(r.trade_date.v \div 10000),
              !.month       = Num((r.trade_date.v \div 100) % 100)]

\* notional_mn, year, month
DeriveRow(r) ==
    [r EXCEPT !.notional_mn = Rat(r.notional.v, r.notional.d * Million),
              !.year        = Num(r.trade_date.v \div 10000),
              !.month       = Num((r.trade_date.v \div 100) % 100)]

\* load_and_clean after the column check
LoadAndClean(rows, st) ==
    LET t       == ReadCsv(rows)
        fmt     == FirstDateKind(t)
        coerced == [i \in DOMAIN t |-> CoerceRow(t[i], fmt, st)]
        kept    == DropNa(coerced)
    IN  [i \in DOMAIN kept |-> DeriveRow(kept[i])]

\* ---- summarize_counterparty ----------------------------------------------
\* the labels of generate_trades.py in the order string comparison gives them
SortedLabels == <<"Bank A", "Bank B", "Bank C", "Bank D", "Bond", "Commodity", "Equity", "FX">>

\* position of a group key in the sorted key order of groupby; NaN sorts last
KeyRank(c) ==
    IF c.k = "str" /\ \E i \in DOMAIN SortedLabels : SortedLabels[i] = c.s
    THEN CHOOSE i \in DOMAIN SortedLabels : SortedLabels[i] = c.s
    ELSE Len(SortedLabels) + 1

RECURSIVE SortedKeys(_)
SortedKeys(S) ==
    IF S = {} THEN <<>>
    ELSE LET m == CHOOSE x \in S : \A y \in S : KeyRank(x) <= KeyRank(y)
         IN  <<m>> \o SortedKeys(S \ {m})

RECURSIVE SumCol(_, _)
\* Series.sum(): NaN is skipped, the empty sum is 0
SumCol(rows, col) ==
    IF rows = <<>> THEN Num(0)
    ELSE LET h == Head(rows)[col]
             t == SumCol(Tail(rows), col)
         IN  IF h.k = "num" THEN RatAdd(h, t) ELSE t

\* Series.count(): the non-null cells
CountCol(rows, col) == Len(SelectSeq(rows, LAMBDA r : r[col].k # "nan"))

\* Series.mean(): NaN when there is no observation
MeanCol(rows, col) ==
    LET n == Len(SelectSeq(rows, LAMBDA r : r[col].k = "num"))
        s == SumCol(rows, col)
    IN  IF n = 0 THEN NaN ELSE Rat(s.v, s.d * n)

AggCounterparty(rows, key) ==
    LET g == SelectSeq(rows, LAMBDA r : r.counterparty = key)
    IN  [counterparty      |-> key,
         total_exposure_mn |-> SumCol(g, "notional_mn"),
         trades            |-> Num(CountCol(g, "trade_id")),
         pnl_total         |-> SumCol(g, "pnl"),
         pnl_avg           |-> MeanCol(g, "pnl")]

RECURSIVE InsertDesc(_, _, _)
\* insert r after every row that is not smaller in col (stable, descending)
InsertDesc(sorted, r, col) ==
    IF sorted = <<>> THEN <<r>>
    ELSE IF RatLess(Head(sorted)[col], r[col])
         THEN <<r>> \o sorted
         ELSE <<Head(sorted)>> \o InsertDesc(Tail(sorted), r, col)

\* the summary left in group-key order
SortValuesForgotten(rows, col) == rows

RECURSIVE SortValuesDesc(_, _)
\* sort_values(col, ascending=False)
SortValuesDesc(rows, col) ==
    IF rows = <<>> THEN <<>>
    ELSE InsertDesc(SortValuesDesc(SubSeq(rows, 1, Len(rows) - 1), col),
                    rows[Len(rows)], col)

SummarizeCounterparty(rows) ==
    LET keys == SortedKeys({rows[i].counterparty : i \in DOMAIN rows})
        agg  == [i \in DOMAIN keys |-> AggCounterparty(rows, keys[i])]
    IN  SortValuesDesc(agg, "total_exposure_mn")

(***************************************************************************)
(* Inputs of the transform step: data/trades.csv with at most MaxRows rows *)
(* drawn from RowPool and with at most one required column absent.         *)
(***************************************************************************)
MkRow(tid, cpty, dt, nt, pl) ==
    [trade_id |-> tid, counterparty |-> cpty, asset_class |-> Word("Equity"),
     currency |-> Word("USD"), trade_type |-> Word("Buy"), trade_date |-> dt,
     notional |-> nt, pnl |-> pl,
     notional_mn |-> Absent, year |-> Absent, month |-> Absent]

\* rows whose every cell can be read
GoodRows ==
    {MkRow(NumTxt(np[1]), Word(cpty), dt, NumTxt(np[2]), NumTxt(np[3])) :
        cpty \in {"Bank A", "Bank B"},
        dt \in {IsoTxt(20240105), UsTxt(12312023)},
        np \in {<<101, 500000, -100>>, <<102, 2000000, 50>>}}

BaseRow == MkRow(NumTxt(101), Word("Bank A"), IsoTxt(20240105), NumTxt(500000), NumTxt(50))

\* one cell of BaseRow left empty, or one coerced cell holding other text
BadRows ==
    {[BaseRow EXCEPT ![c] = Empty] : c \in RequiredSet}
    \cup {[BaseRow EXCEPT ![c] = Word("not-a-date")] : c \in {"trade_date", "notional", "pnl"}}

RowPool == GoodRows \cup BadRows

ColChoices == {RequiredSet} \cup {RequiredSet \ {c} : c \in {"trade_id", "trade_date", "pnl"}}

Project(r, cols) == [c \in DOMAIN r |-> IF c \in cols THEN r[c] ELSE Absent]

SeqsUpTo(S, n) == UNION {[1..k -> S] : k \in 0..n}

NoFile == [exists |-> FALSE, cols |-> {}, rows |-> <<>>]

AnalyticsOff ==
    /\ series = <<>> /\ alpha = 0 /\ lookback = 0
    /\ varWindow = <<>> /\ varResult = NaN /\ aPc = "off"
    /\ pnlFile = NoFile /\ varFile = NoFile /\ cpExpoFile = NoFile
    /\ acExpoFile = NoFile /\ biFile = NoFile

NoPage == [shown |-> FALSE]

DashOff ==
    /\ dateRange = <<0, 0>> /\ selCp = {} /\ selAc = {}
    /\ page = NoPage /\ dPc = "off"

DeltaOff ==
    /\ dSeries = <<>> /\ dDays = 0 /\ dCurr = <<>> /\ dPrev = <<>>
    /\ dResult = NaN /\ deltaPc = "off"

Init ==
    /\ AnalyticsOff
    /\ DashOff
    /\ DeltaOff
    /\ strict \in BOOLEAN
    /\ \E cols \in ColChoices, rows \in SeqsUpTo(RowPool, MaxRows) :
          rawFile = [cols |-> cols, rows |-> [i \in DOMAIN rows |-> Project(rows[i], cols)]]
    /\ processed = NoFile
    /\ summaryFile = NoFile
    /\ df = <<>>
    /\ status = "idle"
    /\ lastPath = "none"
    /\ runs = 0

InputFile(path) == IF path = "raw" THEN rawFile ELSE processed

\* main(): every required column is there; both files are written
TransformOk(path) ==
    /\ runs < MaxRuns
    /\ path = "processed" => processed.exists
    /\ MissingCols(InputFile(path).cols) = <<>>
    /\ df' = LoadAndClean(InputFile(path).rows, strict)
    /\ processed' = [exists |-> TRUE, cols |-> AllCols, rows |-> ToCsv(df')]
    /\ summaryFile' = [exists |-> TRUE, cols |-> {}, rows |-> ToCsv(SummarizeCounterparty(df'))]
    /\ status' = "ok"
    /\ lastPath' = path
    /\ runs' = runs + 1
    /\ UNCHANGED <<strict, rawFile, varVars, outVars, dashVars, deltaVars>>

\* main(): load_and_clean raises ValueError; nothing after it runs
TransformFails(path) ==
    /\ runs < MaxRuns
    /\ path = "processed" => processed.exists
    /\ MissingCols(InputFile(path).cols) # <<>>
    /\ status' = "failed"
    /\ lastPath' = path
    /\ runs' = runs + 1
    /\ UNCHANGED <<strict, rawFile, processed, summaryFile, df, varVars, outVars,
                   dashVars, deltaVars>>

Next ==
    \/ \E path \in {"raw", "processed"} : TransformOk(path)
    \/ \E path \in {"raw", "processed"} : TransformFails(path)

Spec == Init /\ [][Next]_vars

(***************************************************************************)
(* Properties of the transform step.                                       *)
(***************************************************************************)
Indices(s) == [i \in 1..Len(s) |-> i]

\* kind of the first non-empty trade_date text of the raw file
FirstRawDateKind ==
    LET rows == rawFile.rows
        ne   == {i \in DOMAIN rows : rows[i].trade_date.k # "empty"}
    IN  IF ne = {} THEN "none"
        ELSE rows[CHOOSE i \in ne : \A j \in ne : i <= j].trade_date.k

\* every required field of raw row i is present after coercion
RawRowValid(i) ==
    LET r == rawFile.rows[i]
    IN  /\ \A c \in RequiredSet : r[c].k # "empty"
        /\ r.notional.k = "numtxt"
        /\ r.pnl.k = "numtxt"
        /\ r.trade_date.k \in {"iso", "us"}
        /\ (strict /\ FirstRawDateKind \in {"iso", "us"}) => r.trade_date.k = FirstRawDateKind

\* the DataFrame cell out holds the value the raw text denotes
SameValue(raw, out) ==
    CASE raw.k = "word"   -> out.k = "str" /\ out.s = raw.s
      [] raw.k = "numtxt" -> out.k = "num" /\ out.v * raw.d = raw.v * out.d
      [] raw.k = "iso"    -> out.k = "date" /\ out.v = raw.v
      [] raw.k = "us"     -> /\ out.k = "date"
                             /\ out.v \div 10000 = raw.v % 10000
                             /\ (out.v \div 100) % 100 = raw.v \div 1000000
                             /\ out.v % 100 = (raw.v \div 10000) % 100
      [] OTHER            -> FALSE

\* C1: the cleaned dataset holds exactly the raw rows whose eight required
\* fields are all present after coercion, in their original order and with
\* their required values unaltered; every other row is dropped entirely.
C1_KeptRowsExact ==
    (status = "ok" /\ lastPath = "raw") =>
        LET kept == SelectSeq(Indices(rawFile.rows), RawRowValid)
        IN  /\ Len(df) = Len(kept)
            /\ \A j \in 1..Len(kept) : \A c \in RequiredSet :
                   SameValue(rawFile.rows[kept[j]][c], df[j][c])

C1_Witness ==
    /\ status = "ok" /\ lastPath = "raw"
    /\ Len(rawFile.rows) = 2 /\ Len(df) = 1
    /\ rawFile.rows[1].trade_date = Word("not-a-date")
    /\ rawFile.rows[2].counterparty = Word("Bank B")

\* C2: when a required column is absent from the input the run fails and
\* neither the cleaned dataset nor the counterparty summary is produced or
\* written.
C2_SchemaErrorAborts ==
    ~(RequiredSet \subseteq rawFile.cols) =>
        /\ runs > 0 => status = "failed"
        /\ ~processed.exists
        /\ ~summaryFile.exists
        /\ df = <<>>

C2_Witness ==
    /\ status = "failed" /\ runs = 1
    /\ "pnl" \notin rawFile.cols
    /\ Len(rawFile.rows) = 2

RECURSIVE CellTotal(_, _, _)
\* the exact sum of column col over rows 1..n
CellTotal(rows, col, n) ==
    IF n = 0 THEN Rat(0, 1)
    ELSE LET a == CellTotal(rows, col, n - 1)
             b == rows[n][col]
         IN  Rat(a.v * b.d + b.v * a.d, a.d * b.d)

\* C6: the summary has exactly one row per counterparty occurring in the
\* cleaned data, its exposures add up to the cleaned notional_mn, its trade
\* counts add up to the number of cleaned rows, and it is sorted by exposure
\* descending.
C6_SummaryPartition ==
    status = "ok" =>
        LET s == summaryFile.rows
        IN  /\ {s[i].counterparty.s : i \in DOMAIN s} = {df[j].counterparty.s : j \in DOMAIN df}
            /\ \A i, j \in DOMAIN s : s[i].counterparty.s = s[j].counterparty.s => i = j
            /\ CellTotal(s, "total_exposure_mn", Len(s)) = CellTotal(df, "notional_mn", Len(df))
            /\ CellTotal(s, "trades", Len(s)) = Rat(Len(df), 1)
            /\ \A i, j \in DOMAIN s :
                   i < j => s[i].total_exposure_mn.v * s[j].total_exposure_mn.d
                              >= s[j].total_exposure_mn.v * s[i].total_exposure_mn.d

C6_Witness ==
    /\ status = "ok"
    /\ Len(summaryFile.rows) = 2
    /\ summaryFile.rows[1].counterparty.s = "Bank B"
    /\ summaryFile.rows[1].total_exposure_mn.v = 2

\* C7: cleaning the output of a previous cleaning drops no row and leaves
\* every required and derived value as it was.
C7_CleanIdempotent ==
    [][(status' = "ok" /\ lastPath' = "processed" /\ runs' = runs + 1)
          => (df' = df /\ processed' = processed)]_vars

C7_Witness ==
    /\ status = "ok" /\ lastPath = "processed"
    /\ Len(df) = 2
    /\ rawFile.rows[1].trade_date.k = "us"

(***************************************************************************)
(* notebook/analytics.py                                                   *)
(***************************************************************************)
MinObs == 5
MainAlpha == 95
MainLookback == 60

Min(a, b) == IF a < b THEN a ELSE b
Max(a, b) == IF a > b THEN a ELSE b

\* Series.dropna()
DropNaSeries(s) == SelectSeq(s, LAMBDA c : c.k # "nan")

\* Series.tail(n): the last n entries; none for n = 0; all but the first -n
\* for n < 0
TailN(s, n) ==
    CASE n = 0 -> <<>>
      [] n > 0 -> SubSeq(s, Max(1, Len(s) - n + 1), Len(s))
      [] OTHER -> SubSeq(s, Min(-n, Len(s)) + 1, Len(s))

\* Series.head(n) for n >= 0
HeadN(s, n) == SubSeq(s, 1, Min(n, Len(s)))

\* the window in the order the specification words it: tail, then dropna
TailThenDropNa(s, W) == DropNaSeries(TailN(s, W))

\* s = pnl_series.dropna().tail(lookback)
VarWindow(s, W) == TailN(DropNaSeries(s), W)

RECURSIVE InsertAsc(_, _)
InsertAsc(sorted, c) ==
    IF sorted = <<>> THEN <<c>>
    ELSE IF RatLess(c, Head(sorted))
         THEN <<c>> \o sorted
         ELSE <<Head(sorted)>> \o InsertAsc(Tail(sorted), c)

RECURSIVE SortAsc(_)
SortAsc(s) == IF s = <<>> THEN <<>> ELSE InsertAsc(SortAsc(Tail(s)), Head(s))

\* np.quantile(..., method="lower"): the order statistic below the position
QuantileLower(w, qPct) ==
    LET sorted == SortAsc(w)
    IN  sorted[((qPct * (Len(w) - 1)) \div 100) + 1]

\* np.quantile(w, qPct/100), default method "linear": the position
\* q*(n-1) in the sorted values, interpolated between its two neighbours
Quantile(w, qPct) ==
    LET sorted == SortAsc(w)
        n      == Len(w)
        h      == qPct * (n - 1)
        i      == h \div 100
        f      == h % 100
        lo     == sorted[i + 1]
        hi     == sorted[Min(i + 2, n)]
    IN  RatAdd(lo, Rat((hi.v * lo.d - lo.v * hi.d) * f, hi.d * lo.d * 100))

\* the quantile returned without the negation
HistoricalVarUnnegated(s, alphaPct, W) ==
    LET w == VarWindow(s, W)
    IN  IF Len(w) < MinObs THEN NaN ELSE Quantile(w, 100 - alphaPct)

\* historical_var
HistoricalVar(s, alphaPct, W) ==
    LET w == VarWindow(s, W)
        q == Quantile(w, 100 - alphaPct)
    IN  IF Len(w) < MinObs THEN NaN ELSE Rat(-q.v, q.d)

RECURSIVE SortedDates(_)
SortedDates(S) ==
    IF S = {} THEN <<>>
    ELSE LET m == CHOOSE x \in S : \A y \in S : x.v <= y.v
         IN  <<m>> \o SortedDates(S \ {m})

\* daily_pnl: one row per trade date (NaT groups are left out), ascending
DailyPnl(rows) ==
    LET keys == SortedDates({rows[i].trade_date : i \in DOMAIN rows} \ {NaN})
    IN  [i \in DOMAIN keys |->
            [trade_date |-> keys[i],
             pnl_total  |-> SumCol(SelectSeq(rows, LAMBDA r : r.trade_date = keys[i]), "pnl")]]

\* exposure_tables, one dimension: groupby(dim)["notional_mn"].sum(), descending
ExposureBy(rows, dim) ==
    LET keys == SortedKeys({rows[i][dim] : i \in DOMAIN rows} \ {NaN})
        agg  == [i \in DOMAIN keys |->
                    [key         |-> keys[i],
                     exposure_mn |-> SumCol(SelectSeq(rows, LAMBDA r : r[dim] = keys[i]),
                                            "notional_mn")]]
    IN  SortValuesDesc(agg, "exposure_mn")

\* bi_export: the trade columns plus yyyymm
BiExport(rows) ==
    [i \in DOMAIN rows |->
        [trade_date |-> rows[i].trade_date, yyyymm |-> Num(rows[i].trade_date.v \div 100),
         counterparty |-> rows[i].counterparty, asset_class |-> rows[i].asset_class,
         currency |-> rows[i].currency, trade_type |-> rows[i].trade_type,
         notional |-> rows[i].notional, notional_mn |-> rows[i].notional_mn,
         pnl |-> rows[i].pnl]]

\* pd.read_csv(..., parse_dates=["trade_date"])
ReadTrades(rows, st) ==
    LET t   == ReadCsv(rows)
        fmt == FirstDateKind(t)
    IN  [i \in DOMAIN t |-> [t[i] EXCEPT !.trade_date = ToDatetime(t[i].trade_date, fmt, st)]]

Column(rows, col) == [i \in DOMAIN rows |-> rows[i][col]]

File(rows) == [exists |-> TRUE, cols |-> {}, rows |-> rows]

(***************************************************************************)
(* Inputs of the analytics step: either a call of historical_var on a      *)
(* series of at most MaxSeries entries, or a run of the script on a        *)
(* processed_trades.csv of at most five trades with the P&L values         *)
(* -100, -50, 0, 50, 100 in that order, on dates drawn from NumDates days. *)
(***************************************************************************)
SeriesValues == {NaN, Num(-100), Num(0), Num(50)}
Alphas == {0, 50, 95}
Lookbacks == {0, 5, 60}
FixturePnl == <<-100, -50, 0, 50, 100>>

FixtureTrades(dates) ==
    [i \in DOMAIN dates |->
        DeriveRow(MkRow(Num(100 + i), Str("Bank A"), Date(20240100 + dates[i]),
                        Num(Million), Num(FixturePnl[i])))]

EtlOff ==
    /\ strict = FALSE /\ rawFile = [cols |-> {}, rows |-> <<>>]
    /\ summaryFile = NoFile /\ df = <<>>
    /\ status = "idle" /\ lastPath = "none" /\ runs = 0

InitCall ==
    /\ processed = NoFile
    /\ series \in SeqsUpTo(SeriesValues, MaxSeries)
    /\ alpha \in Alphas
    /\ lookback \in Lookbacks
    /\ aPc = "call"

InitMain ==
    /\ \E dates \in SeqsUpTo(1..NumDates, Len(FixturePnl)) :
          processed = [exists |-> TRUE, cols |-> AllCols,
                       rows |-> ToCsv(FixtureTrades(dates))]
    /\ series = <<>>
    /\ alpha = MainAlpha
    /\ lookback = MainLookback
    /\ aPc = "main"

InitVaR ==
    /\ EtlOff
    /\ DashOff
    /\ DeltaOff
    /\ InitCall \/ InitMain
    /\ varWindow = <<>> /\ varResult = NaN
    /\ pnlFile = NoFile /\ varFile = NoFile /\ cpExpoFile = NoFile
    /\ acExpoFile = NoFile /\ biFile = NoFile

\* a call historical_var(series, alpha, lookback)
HistoricalVarCall ==
    /\ aPc = "call"
    /\ varWindow' = VarWindow(series, lookback)
    /\ varResult' = HistoricalVar(series, alpha, lookback)
    /\ aPc' = "returned"
    /\ UNCHANGED <<etlVars, series, alpha, lookback, outVars, dashVars, deltaVars>>

\* the script: daily P&L, VaR (95%, 60 days), exposure tables, BI export
AnalyticsMain ==
    /\ aPc = "main"
    /\ processed.exists
    /\ LET trades == ReadTrades(processed.rows, strict)
           pnl    == DailyPnl(trades)
           s      == Column(pnl, "pnl_total")
           v      == HistoricalVar(s, MainAlpha, MainLookback)
       IN  /\ pnlFile' = File(ToCsv(pnl))
           /\ series' = s
           /\ varWindow' = VarWindow(s, MainLookback)
           /\ varResult' = v
           /\ varFile' = File(ToCsv(<<[alpha |-> Rat(MainAlpha, 100),
                                       lookback_days |-> Num(MainLookback),
                                       VaR |-> v]>>))
           /\ cpExpoFile' = File(ToCsv(ExposureBy(trades, "counterparty")))
           /\ acExpoFile' = File(ToCsv(ExposureBy(trades, "asset_class")))
           /\ biFile' = File(ToCsv(BiExport(trades)))
    /\ aPc' = "written"
    /\ UNCHANGED <<etlVars, alpha, lookback, dashVars, deltaVars>>

NextVaR == HistoricalVarCall \/ AnalyticsMain

SpecVaR == InitVaR /\ [][NextVaR]_vars

(***************************************************************************)
(* Properties of the analytics step.                                       *)
(***************************************************************************)
IsValid(c) == c.k # "nan"

\* C3 as stated: the window is the valid entries among the last W entries of
\* the series, and the result is NaN exactly when fewer than 5 of those last
\* W entries are valid.
C3_TailBeforeDropNa ==
    aPc = "returned" =>
        LET lastW == SubSeq(series, Max(1, Len(series) - lookback + 1), Len(series))
            kept  == SelectSeq(lastW, IsValid)
        IN  /\ varWindow = kept
            /\ (varResult.k = "nan") <=> (Len(kept) < 5)

\* C3 amended: the missing values are dropped from the whole series first and
\* the window is the last W of the valid observations that remain (all of
\* them if there are fewer); the result is NaN exactly when that window holds
\* fewer than 5 observations. A missing value among the last W entries is
\* made up for by an older valid observation.
C3_DropNaBeforeTail ==
    aPc = "returned" =>
        LET valid == SelectSeq(series, IsValid)
            m     == Min(lookback, Len(valid))
        IN  /\ varWindow = SubSeq(valid, Len(valid) - m + 1, Len(valid))
            /\ (varResult.k = "nan") <=> (m < 5)

C3_Witness ==
    /\ aPc = "returned"
    /\ Len(series) = 6 /\ series[6] = NaN /\ series[1] = Num(-100)
    /\ lookback = 5
    /\ Len(varWindow) = 5 /\ varWindow[1] = Num(-100)
    /\ varResult.k = "num"

\* the k-th smallest value of the window, by counting
OrderStat(w, k) ==
    CHOOSE x \in {w[j].v : j \in DOMAIN w} :
        /\ Cardinality({j \in DOMAIN w : w[j].v < x}) < k
        /\ k <= Cardinality({j \in DOMAIN w : w[j].v <= x})

\* C4: with at least 5 observations in the window the result is defined and
\* is minus the (1 - alpha) quantile of the window, interpolated linearly
\* between the two order statistics around position (1 - alpha)(n - 1).
C4_NegatedLinearQuantile ==
    (aPc \in {"returned", "written"} /\ Len(varWindow) >= 5) =>
        LET n  == Len(varWindow)
            h  == (100 - alpha) * (n - 1)
            lo == OrderStat(varWindow, (h \div 100) + 1)
            hi == OrderStat(varWindow, Min((h \div 100) + 2, n))
        IN  /\ varResult.k = "num"
            /\ varResult.v * 100 = -(100 * lo + (h % 100) * (hi - lo)) * varResult.d

C4_Witness ==
    /\ aPc = "returned"
    /\ alpha = 95
    /\ Len(varWindow) = 5
    /\ varResult = Rat(-10, 1)

FixtureLoaded == processed.exists /\ Len(processed.rows) = Len(FixturePnl)
OneDate == \A i, j \in DOMAIN processed.rows :
               processed.rows[i].trade_date = processed.rows[j].trade_date
FiveDates == \A i, j \in DOMAIN processed.rows :
               processed.rows[i].trade_date = processed.rows[j].trade_date => i = j

\* C5 as stated: five trades on one date with P&L -100, -50, 0, 50, 100 give
\* the defined VaR 90.
C5_OneDateGives90 ==
    (aPc = "written" /\ FixtureLoaded /\ OneDate) => varResult = Rat(90, 1)

\* C5 amended: the five P&L values give VaR 90 (minus the 5th percentile -90,
\* interpolated linearly) when the five trades fall on five distinct dates;
\* when they all fall on one date daily_pnl adds them up to a single daily
\* observation 0 and the VaR is undefined (NaN).
C5_FixtureVaR ==
    (aPc = "written" /\ FixtureLoaded) =>
        /\ FiveDates => varResult = Rat(90, 1)
        /\ OneDate => (series = <<Num(0)>> /\ varResult = NaN)

C5_Witness ==
    /\ aPc = "written" /\ FixtureLoaded /\ FiveDates
    /\ processed.rows[1].trade_date = IsoTxt(20240105)
    /\ varResult = Rat(90, 1)
    /\ varFile.rows[1].VaR = NumTxt(90)

(***************************************************************************)
(* app/dashboard.py: last_period_delta                                     *)
(***************************************************************************)
KpiDays == 7
None == Cell("none", 0, 1, "")

RECURSIVE InsertByDate(_, _)
InsertByDate(sorted, r) ==
    IF sorted = <<>> THEN <<r>>
    ELSE IF r.trade_date.v < Head(sorted).trade_date.v
         THEN <<r>> \o sorted
         ELSE <<Head(sorted)>> \o InsertByDate(Tail(sorted), r)

RECURSIVE SortIndex(_)
\* series.sort_index(): the rows ascending by their date index
SortIndex(s) ==
    IF s = <<>> THEN <<>>
    ELSE InsertByDate(SortIndex(SubSeq(s, 1, Len(s) - 1)), s[Len(s)])

\* curr = s.tail(days)
DeltaCurr(s, days) == TailN(SortIndex(s), days)

\* prev = s.tail(days*2).head(days)
DeltaPrev(s, days) == HeadN(TailN(SortIndex(s), days * 2), days)

\* last_period_delta
LastPeriodDelta(s, days) ==
    LET curr == SumCol(DeltaCurr(s, days), "pnl_total")
        prev == SumCol(DeltaPrev(s, days), "pnl_total")
    IN  IF Len(s) < days + 1 THEN None ELSE RatAdd(curr, Rat(-prev.v, prev.d))

(***************************************************************************)
(* Inputs of last_period_delta: a daily series of at most MaxDelta entries *)
(* on consecutive days, given in ascending or in descending date order.    *)
(***************************************************************************)
DeltaValues == {-100, 0, 50}
DeltaDays == {1, 2, 3}

DailySeries(vals, ascending) ==
    [i \in DOMAIN vals |->
        [trade_date |-> Date(20240100 + (IF ascending THEN i ELSE Len(vals) + 1 - i)),
         pnl_total  |-> Num(vals[i])]]

InitDelta ==
    /\ EtlOff /\ processed = NoFile /\ AnalyticsOff /\ DashOff
    /\ \E vals \in SeqsUpTo(DeltaValues, MaxDelta), asc \in BOOLEAN :
          dSeries = DailySeries(vals, asc)
    /\ dDays \in DeltaDays
    /\ dCurr = <<>> /\ dPrev = <<>> /\ dResult = NaN
    /\ deltaPc = "call"

\* a call last_period_delta(series, days)
LastPeriodDeltaCall ==
    /\ deltaPc = "call"
    /\ dCurr' = DeltaCurr(dSeries, dDays)
    /\ dPrev' = DeltaPrev(dSeries, dDays)
    /\ dResult' = LastPeriodDelta(dSeries, dDays)
    /\ deltaPc' = "returned"
    /\ UNCHANGED <<etlVars, varVars, outVars, dashVars, dSeries, dDays>>

NextDelta == LastPeriodDeltaCall

SpecDelta == InitDelta /\ [][NextDelta]_vars

RECURSIVE IntTotal(_, _)
\* the sum of pnl_total over rows 1..n of integer-valued rows
IntTotal(rows, n) == IF n = 0 THEN 0 ELSE IntTotal(rows, n - 1) + rows[n].pnl_total.v

DatesOf(rows) == {rows[i].trade_date.v : i \in DOMAIN rows}

\* C10: whenever a number is returned it is the sum of the last days entries
\* of the date-sorted series minus the sum of the days entries immediately
\* before them; the two windows hold days entries each and share none.
C10_DisjointWindows ==
    (deltaPc = "returned" /\ dResult.k = "num") =>
        LET n    == Len(dSeries)
            last == CHOOSE d \in DatesOf(dSeries) : \A e \in DatesOf(dSeries) : e <= d
        IN  /\ Len(dCurr) = dDays /\ Len(dPrev) = dDays
            /\ DatesOf(dCurr) \cap DatesOf(dPrev) = {}
            /\ DatesOf(dCurr) = {d \in DatesOf(dSeries) : d > last - dDays}
            /\ DatesOf(dPrev) = {d \in DatesOf(dSeries) :
                                    d > last - 2 * dDays /\ d <= last - dDays}
            /\ dResult = Rat(IntTotal(dCurr, Len(dCurr)) - IntTotal(dPrev, Len(dPrev)), 1)

(***************************************************************************)
(* app/dashboard.py: the page                                              *)
(***************************************************************************)
TopN == 15

\* the integer nearest to v/d, ties to even
RoundHalfEven(v, d) ==
    LET q == v \div d
        r == v - q * d
    IN  CASE 2 * r < d -> q
          [] 2 * r > d -> q + 1
          [] OTHER     -> IF q % 2 = 0 THEN q ELSE q + 1

\* the text of a number with 0 or 2 decimals: its digits as an integer
Fmt(x, decimals, unit) ==
    [text |-> "number", decimals |-> decimals, unit |-> unit,
     n |-> IF decimals = 2 THEN RoundHalfEven(x.v * 100, x.d) ELSE RoundHalfEven(x.v, x.d)]

Placeholder == [text |-> "dash", decimals |-> 0, unit |-> "", n |-> 0]
NanText     == [text |-> "nan", decimals |-> 0, unit |-> "", n |-> 0]
NoText      == [text |-> "none", decimals |-> 0, unit |-> "", n |-> 0]

\* fmt_mn
FmtMn(x) == IF x.k = "num" THEN Fmt(x, 2, "mn") ELSE Placeholder

\* fmt_cur
FmtCur(x) ==
    IF Abs(x.v) < Million * x.d THEN Fmt(x, 0, "") ELSE Fmt(Rat(x.v, x.d * Million), 2, "mn")

\* Styler.format on one cell
FmtCell(c, decimals) == IF c.k = "num" THEN Fmt(c, decimals, "") ELSE NanText

\* apply_filters
ApplyFilters(rows, dr, cps, acs) ==
    SelectSeq(rows, LAMBDA r :
        /\ r.trade_date.v >= dr[1] /\ r.trade_date.v <= dr[2]
        /\ cps # {} => r.counterparty.s \in cps
        /\ acs # {} => r.asset_class.s \in acs)

\* tab 1: summary.style.format(...)
SummaryTable(rows) ==
    [i \in DOMAIN rows |->
        [counterparty      |-> rows[i].counterparty,
         total_exposure_mn |-> FmtCell(rows[i].total_exposure_mn, 2),
         trades            |-> rows[i].trades,
         pnl_total         |-> FmtCell(rows[i].pnl_total, 0),
         pnl_avg           |-> FmtCell(rows[i].pnl_avg, 0)]]

\* tab 4: f.sort_values("trade_date", ascending=False).style.format(...)
FilteredTable(f) ==
    LET s == SortValuesDesc(f, "trade_date")
    IN  [i \in DOMAIN s |->
            [trade_id |-> s[i].trade_id, counterparty |-> s[i].counterparty,
             asset_class |-> s[i].asset_class, trade_date |-> s[i].trade_date,
             notional    |-> FmtCell(s[i].notional, 0),
             notional_mn |-> FmtCell(s[i].notional_mn, 2),
             pnl         |-> FmtCell(s[i].pnl, 0)]]

Chart(rows) == [shown |-> TRUE, rows |-> rows]
NoChart == [shown |-> FALSE, rows |-> <<>>]

\* the script from load_all to the last widget, given the files it could open
RenderedPage(dr, cps, acs) ==
    LET trades  == ReadTrades(processed.rows, strict)
        summary == ReadCsv(summaryFile.rows)
        pnl     == ReadTrades(pnlFile.rows, strict)
        varm    == ReadCsv(varFile.rows)
        cpExpo  == ReadCsv(cpExpoFile.rows)
        acExpo  == ReadCsv(acExpoFile.rows)
        hasPnl  == pnlFile.exists /\ pnl # <<>>
        f       == ApplyFilters(trades, dr, cps, acs)
        delta   == IF hasPnl THEN LastPeriodDelta(pnl, KpiDays) ELSE None
        varVal  == IF varFile.exists /\ varm # <<>> THEN varm[1].VaR ELSE NaN
    IN  [shown         |-> TRUE,
         totalExposure |-> FmtMn(SumCol(f, "notional_mn")),
         totalTrades   |-> Cardinality({f[i].trade_id : i \in DOMAIN f} \ {NaN}),
         totalPnl      |-> FmtCur(SumCol(f, "pnl")),
         pnlDelta      |-> IF delta.k = "num" THEN Fmt(delta, 0, "") ELSE NoText,
         portfolioVaR  |-> IF varVal.k = "num" THEN FmtCur(varVal) ELSE Placeholder,
         summaryTable  |-> SummaryTable(summary),
         cpChart       |-> IF cpExpoFile.exists /\ cpExpo # <<>>
                           THEN Chart(HeadN(cpExpo, TopN)) ELSE NoChart,
         acChart       |-> IF acExpoFile.exists /\ acExpo # <<>>
                           THEN Chart(acExpo) ELSE NoChart,
         pnlChart      |-> IF hasPnl
                           THEN Chart(SelectSeq(pnl, LAMBDA r :
                                    r.trade_date.v >= dr[1] /\ r.trade_date.v <= dr[2]))
                           ELSE NoChart,
         filteredTable |-> FilteredTable(f),
         biDownload    |-> biFile.exists]

(***************************************************************************)
(* Inputs of the dashboard: the files a transform run and an analytics run *)
(* leave for a cleaned dataset of 1..DashRows trades, some of them never   *)
(* written, and the selections of the three sidebar widgets.               *)
(***************************************************************************)
DashPool ==
    {[MkRow(NumTxt(cn[2]), Word(cn[1]), IsoTxt(dt), NumTxt(cn[3]), NumTxt(cn[4]))
        EXCEPT !.asset_class = Word(ac)] :
        cn \in {<<"Bank A", 101, 500000, -100>>, <<"Bank B", 102, 2000000, 50>>},
        ac \in {"Equity", "Bond"},
        dt \in {20240105, 20240108}}

AllFiles == {"processed", "summary", "pnl", "var", "cp", "ac", "bi"}
Presence == {AllFiles} \cup {AllFiles \ {x} : x \in AllFiles} \cup {{"processed", "summary"}}
VarChoices == {NaN, Num(90), Num(2500000)}
DateRanges == {<<20240105, 20240108>>, <<20240105, 20240105>>,
               <<20240108, 20240108>>, <<20240110, 20240110>>}

FileIf(present, rows) == IF present THEN File(ToCsv(rows)) ELSE NoFile

InitDash ==
    /\ strict = FALSE /\ rawFile = [cols |-> {}, rows |-> <<>>]
    /\ status = "idle" /\ lastPath = "none" /\ runs = 0
    /\ series = <<>> /\ alpha = 0 /\ lookback = 0
    /\ varWindow = <<>> /\ varResult = NaN /\ aPc = "off"
    /\ DeltaOff
    /\ \E raw \in SeqsUpTo(DashPool, DashRows), has \in Presence, v \in VarChoices :
          /\ raw # <<>>
          /\ df = LoadAndClean(raw, FALSE)
          /\ processed = IF "processed" \in has
                         THEN [exists |-> TRUE, cols |-> AllCols, rows |-> ToCsv(df)]
                         ELSE NoFile
          /\ summaryFile = FileIf("summary" \in has, SummarizeCounterparty(df))
          /\ pnlFile = FileIf("pnl" \in has, DailyPnl(df))
          /\ varFile = FileIf("var" \in has,
                              <<[alpha |-> Rat(MainAlpha, 100),
                                 lookback_days |-> Num(MainLookback),
                                 VaR |-> IF "var" \in has THEN v ELSE NaN]>>)
          /\ cpExpoFile = FileIf("cp" \in has, ExposureBy(df, "counterparty"))
          /\ acExpoFile = FileIf("ac" \in has, ExposureBy(df, "asset_class"))
          /\ biFile = FileIf("bi" \in has, BiExport(df))
    /\ dateRange = <<0, 0>> /\ selCp = {} /\ selAc = {}
    /\ page = NoPage
    /\ dPc = "start"

\* one run of the script with the widgets at dr, cps, acs: load_all opens
\* both unguarded files and the page is drawn
RenderPage(dr, cps, acs) ==
    /\ dPc = "start"
    /\ processed.exists /\ summaryFile.exists
    /\ dateRange' = dr /\ selCp' = cps /\ selAc' = acs
    /\ page' = RenderedPage(dr, cps, acs)
    /\ dPc' = "rendered"
    /\ UNCHANGED <<etlVars, varVars, outVars, deltaVars>>

\* one run of the script: pd.read_csv in load_all raises FileNotFoundError
RenderRaises ==
    /\ dPc = "start"
    /\ ~(processed.exists /\ summaryFile.exists)
    /\ page' = NoPage
    /\ dPc' = "raised"
    /\ UNCHANGED <<etlVars, varVars, outVars, deltaVars, dateRange, selCp, selAc>>

NextDash ==
    \/ \E dr \in DateRanges, cps \in SUBSET {"Bank A", "Bank B"},
          acs \in SUBSET {"Equity", "Bond"} : RenderPage(dr, cps, acs)
    \/ RenderRaises

SpecDash == InitDash /\ [][NextDash]_vars

(***************************************************************************)
(* Properties of the dashboard.                                            *)
(***************************************************************************)
\* the trades that satisfy the date range and both include-lists
Selected ==
    SelectSeq(df, LAMBDA r :
        /\ dateRange[1] <= r.trade_date.v /\ r.trade_date.v <= dateRange[2]
        /\ (selCp = {} \/ r.counterparty.s \in selCp)
        /\ (selAc = {} \/ r.asset_class.s \in selAc))

\* the three KPIs and the table of tab 4 show the selected trades only
FilteredElements ==
    /\ page.totalExposure = FmtMn(SumCol(Selected, "notional_mn"))
    /\ page.totalTrades = Cardinality({Selected[i].trade_id : i \in DOMAIN Selected})
    /\ page.totalPnl = FmtCur(SumCol(Selected, "pnl"))
    /\ page.filteredTable = FilteredTable(Selected)

\* the summary table and the three charts show the selected trades only
PrecomputedElements ==
    /\ page.summaryTable = SummaryTable(SummarizeCounterparty(Selected))
    /\ page.cpChart.shown => page.cpChart.rows = ExposureBy(Selected, "counterparty")
    /\ page.acChart.shown => page.acChart.rows = ExposureBy(Selected, "asset_class")
    /\ page.pnlChart.shown => page.pnlChart.rows = DailyPnl(Selected)

\* C8: the date range and the two include-lists are combined with AND and
\* every KPI, chart and table on the page shows only the trades that satisfy
\* all three.
C8_EveryElementFiltered ==
    dPc = "rendered" => (FilteredElements /\ PrecomputedElements)

\* C9: whatever upstream files exist and whatever they hold, a run of the
\* script draws the page without raising, with a placeholder where the VaR is
\* undefined or absent and zeros where no trade is selected.
C9_RendersForEveryInput ==
    dPc # "start" =>
        /\ dPc = "rendered"
        /\ (~varFile.exists \/ varFile.rows[1].VaR = Empty) => page.portfolioVaR = Placeholder
        /\ Selected = <<>> => (page.totalExposure.n = 0 /\ page.totalTrades = 0
                               /\ page.totalPnl.n = 0)

====
